---- MODULE Spec2Model ----
(***************************************************************************)
(* gitlab-repo-cloner (src/main.go): the recursive group/project traversal *)
(* of RepoCloner.Group / RepoCloner.Project and the clone-or-pull sync of  *)
(* RepoCloner.gitClone, as one sequential state machine.                   *)
(*                                                                         *)
(* Paths are sequences of path segments (a GitLab path segment holds no    *)
(* "/"), so path.Join is concatenation that drops empty elements.          *)
(***************************************************************************)
EXTENDS Integers, Sequences, FiniteSets, TLC

VARIABLES
    groupIDs,          \* --group-ids, the root groups (main.go:183,194)
    projectIDs,        \* --project-ids, the root projects (main.go:184,195)
    ignoreGroupIDs,    \* rc.ignoreGroupIDs (main.go:24)
    ignoreProjectIDs,  \* rc.ignoreProjectIDs (main.go:23)
    mainPc,            \* position of main: "groups", "projects", "done"
    mi,                \* index of the next root in the running loop of main
    stack,             \* activations of RepoCloner.Group, innermost last
    proj,              \* activation of RepoCloner.Project, or NoProj
    sync,              \* activation of RepoCloner.gitClone, or NoSync
    fs,                \* local disk: destination path -> repository state
    log,               \* every call, external request and result, in order
    faultsLeft         \* external failures the environment may still inject

vars == <<groupIDs, projectIDs, ignoreGroupIDs, ignoreProjectIDs, mainPc, mi,
          stack, proj, sync, fs, log, faultsLeft>>

----------------------------------------------------------------------------
(* Bounds of the model *)

\* The environment injects at most this many external failures in one run.
MaxFailures == 2

\* Nested RepoCloner.Group activations the model follows (only a cyclic
\* subgroup relation reaches it).
MaxDepth == 4

\* The most entries the directory service returns in one page, whatever
\* per_page asks for (GitLab grants at most 100).
ServicePageCap == 100

----------------------------------------------------------------------------
(* Program constants *)

\* listOptions.PerPage
PerPage == 1000

\* rc.destDir, as path segments
destDir == <<"repos">>

----------------------------------------------------------------------------
(* The remote directory service: what GetGroup, ListGroupProjects,         *)
(* ListSubGroups and GetProject answer from.                               *)

Min(a, b) == IF a < b THEN a ELSE b

\* The entries of one page: what listOptions asks for, within what the
\* service grants.
PageSize == Min(PerPage, ServicePageCap)

\* Project IDs of the one group that owns more projects than a page holds.
BigProjectIDs == [i \in 1..(PageSize + 1) |-> 1000 + i]

AllGroupIDs == {10, 11, 12, 20, 30, 40, 41}

\* gitlab.Group as GetGroup returns it, with the group's direct projects and
\* direct subgroups in the order the list calls return them (name ascending).
\* Groups 40 and 41 are each other's subgroup: a hierarchy GitLab itself
\* never serves, kept to show what the traversal does without a visited set.
GroupData(g) ==
    CASE g = 10 -> [ID |-> 10, FullPath |-> <<"g10">>,
                    projects |-> <<1, 5>>, subgroups |-> <<11, 12>>]
      [] g = 11 -> [ID |-> 11, FullPath |-> <<"g10", "g11">>,
                    projects |-> <<2>>, subgroups |-> <<>>]
      [] g = 12 -> [ID |-> 12, FullPath |-> <<"g10", "g12">>,
                    projects |-> <<3>>, subgroups |-> <<>>]
      [] g = 20 -> [ID |-> 20, FullPath |-> <<"g20">>,
                    projects |-> <<4>>, subgroups |-> <<>>]
      [] g = 30 -> [ID |-> 30, FullPath |-> <<"g30">>,
                    projects |-> BigProjectIDs, subgroups |-> <<>>]
      [] g = 40 -> [ID |-> 40, FullPath |-> <<"g40">>,
                    projects |-> <<>>, subgroups |-> <<41>>]
      [] g = 41 -> [ID |-> 41, FullPath |-> <<"g40", "g41">>,
                    projects |-> <<6>>, subgroups |-> <<40>>]

\* gitlab.Project: ID, Path (the last path segment) and the group owning it.
\* Projects 1, 3 and 4 share the segment "alpha" in three different groups.
ProjectData(p) ==
    CASE p = 1 -> [ID |-> 1, Path |-> "alpha", group |-> 10]
      [] p = 2 -> [ID |-> 2, Path |-> "beta",  group |-> 11]
      [] p = 3 -> [ID |-> 3, Path |-> "alpha", group |-> 12]
      [] p = 4 -> [ID |-> 4, Path |-> "alpha", group |-> 20]
      [] p = 5 -> [ID |-> 5, Path |-> "gamma", group |-> 10]
      [] p = 6 -> [ID |-> 6, Path |-> "delta", group |-> 41]
      [] OTHER -> [ID |-> p, Path |-> ToString(p), group |-> 30]

\* One list call: listOptions asks for one page of PerPage entries, Page is
\* left at its default (the first), and the *gitlab.Response that names the
\* next page is discarded, so the caller sees the first page only.
FirstPage(s) == SubSeq(s, 1, Min(Len(s), PageSize))

----------------------------------------------------------------------------
(* path.Join *)

NonEmpty(seg) == seg # ""

\* path.Join(a, b): empty elements are ignored, the rest joined by "/".
PathJoin(a, b) == SelectSeq(a \o b, NonEmpty)

\* gitClone's destination: path.Join(rc.destDir, path.Join(dest, project.Path))
DestPath(dest, project) == PathJoin(destDir, PathJoin(dest, <<project.Path>>))

----------------------------------------------------------------------------
(* The version control backend (go-git) and the local disk *)

NoRepo == [origin |-> 0, head |-> "none"]

\* The repository at a destination path (NoRepo: none there).
Local(disk, path) == IF path \in DOMAIN disk THEN disk[path] ELSE NoRepo

Put(disk, path, repo) ==
    [q \in (DOMAIN disk) \cup {path} |-> IF q = path THEN repo ELSE disk[q]]

\* git.PlainClone without an external failure: ErrRepositoryAlreadyExists when
\* the destination holds a repository, else a clone at the remote's tip.
PlainCloneResult(disk, path) ==
    IF Local(disk, path) # NoRepo THEN "ErrRepositoryAlreadyExists" ELSE "nil"

PlainCloneDisk(disk, path, pid) ==
    IF Local(disk, path) # NoRepo THEN disk
    ELSE Put(disk, path, [origin |-> pid, head |-> "tip"])

\* git.PlainOpen without an external failure.
PlainOpenResult(disk, path) ==
    IF Local(disk, path) = NoRepo THEN "ErrRepositoryNotExists" ELSE "nil"

\* Worktree.Pull from origin with Force, without an external failure: the
\* local branch is moved to the tip of the remote the repository was cloned
\* from; NoErrAlreadyUpToDate when it is there already.
PullResult(disk, path) ==
    IF Local(disk, path).head = "tip" THEN "NoErrAlreadyUpToDate" ELSE "nil"

PullDisk(disk, path) ==
    IF Local(disk, path).head = "tip" THEN disk
    ELSE Put(disk, path, [Local(disk, path) EXCEPT !.head = "tip"])

\* An external failure of a call (network, disk, authentication).
Failure == "error"

----------------------------------------------------------------------------
(* Activations *)

NoProj == [projectID |-> 0]

NoSync == [pid |-> 0]

NoGroup == [ID |-> 0, FullPath |-> <<>>]

Top(stk) == stk[Len(stk)]

Pop(stk) == SubSeq(stk, 1, Len(stk) - 1)

SetTop(stk, f) == [stk EXCEPT ![Len(stk)] = f]

\* The "return" events of the activations that old holds and new does not,
\* innermost first.
ReturnEvents(old, new) ==
    [i \in 1..(Len(old) - Len(new)) |->
        [op |-> "return", fr |-> old[Len(old) - i + 1].id,
         id |-> old[Len(old) - i + 1].groupID]]

\* Nothing is running below main's loops.
Idle == stack = <<>> /\ proj.projectID = 0 /\ sync.pid = 0

\* The innermost Group activation is running (no sync under it).
InGroup(pc) == stack # <<>> /\ sync.pid = 0 /\ Top(stack).pc = pc

----------------------------------------------------------------------------
(* RepoCloner.Group, main.go:34-90 *)

\* The exclusion check dropped.
GroupIgnoredNever(groupID) == FALSE

\* slices.Contains(rc.ignoreGroupIDs, groupID)
GroupIgnored(groupID) == groupID \in ignoreGroupIDs

\* The two halves of Group swapped: subgroups first, projects after.
NextPcSubgroupsFirst(pc) ==
    CASE pc = "getGroup"      -> "listSubGroups"
      [] pc = "listSubGroups" -> "subgroups"
      [] pc = "subgroups"     -> "listProjects"
      [] pc = "listProjects"  -> "projects"
      [] pc = "projects"      -> "return"

\* The statement order of Group after the exclusion check: get the group,
\* list its projects, sync each, list its subgroups, visit each, return.
NextPc(pc) ==
    CASE pc = "getGroup"      -> "listProjects"
      [] pc = "listProjects"  -> "projects"
      [] pc = "projects"      -> "listSubGroups"
      [] pc = "listSubGroups" -> "subgroups"
      [] pc = "subgroups"     -> "return"

\* "get group error" taken as fatal to the whole traversal of the root.
OnGetGroupErrorFatal(stk) == <<>>

\* "get group error": log and return to the caller.
OnGetGroupError(stk) == Pop(stk)

\* "list projects error": the same activation goes on to its subgroups.
OnListProjectsErrorContinue(stk) ==
    SetTop(stk, [Top(stk) EXCEPT !.pc = "listSubGroups"])

\* "list projects error": log and return to the caller.
OnListProjectsError(stk) == Pop(stk)

\* "list subgroups error": log and return to the caller.
OnListSubGroupsError(stk) == Pop(stk)

\* The recursive call given the ID of the activation's own group (the outer
\* variable that the range variable shadows).
SubGroupArgOuter(f, g) == f.group.ID

\* The argument of the recursive call in `for _, group := range groups`:
\* the range variable's ID.
SubGroupArg(f, g) == g

\* The activation moves to its next statement; past the last, it returns.
Advance(stk) ==
    IF NextPc(Top(stk).pc) = "return" THEN Pop(stk)
    ELSE SetTop(stk, [Top(stk) EXCEPT !.pc = NextPc(@)])

\* rc.Group(groupID) called from the activation with frame id caller: the
\* exclusion check, and the new activation when the group is not excluded.
\* A frame's id is the position of its call in the log.
CallGroup(stk, caller, groupID) ==
    LET call == [op |-> "Group", fr |-> caller, id |-> groupID]
        me   == Len(log) + 1
    IN IF GroupIgnored(groupID)
       THEN /\ log' = log \o <<call,
                               [op |-> "ignore group", fr |-> me, id |-> groupID],
                               [op |-> "return", fr |-> me, id |-> groupID]>>
            /\ stack' = stk
       ELSE /\ log' = Append(log, call)
            /\ stack' = Append(stk, [id |-> me, groupID |-> groupID,
                                     pc |-> "getGroup", group |-> NoGroup,
                                     projects |-> <<>>, pi |-> 1,
                                     groups |-> <<>>, gi |-> 1])

\* rc.client.Groups.GetGroup(groupID, ...)
GetGroup ==
    /\ InGroup("getGroup")
    /\ \E fail \in BOOLEAN :
        LET f  == Top(stack)
            ev == [op |-> "GetGroup", fr |-> f.id, id |-> f.groupID, ok |-> ~fail]
        IN /\ fail => faultsLeft > 0
           /\ faultsLeft' = IF fail THEN faultsLeft - 1 ELSE faultsLeft
           /\ stack' = IF fail THEN OnGetGroupError(stack)
                       ELSE SetTop(stack,
                              [f EXCEPT !.group = [ID |-> GroupData(f.groupID).ID,
                                                   FullPath |-> GroupData(f.groupID).FullPath],
                                        !.pc = NextPc(f.pc)])
           /\ log' = Append(log, ev) \o ReturnEvents(stack, stack')
    /\ UNCHANGED <<groupIDs, projectIDs, ignoreGroupIDs, ignoreProjectIDs,
                   mainPc, mi, proj, sync, fs>>

\* rc.client.Groups.ListGroupProjects(group.ID, ...)
ListGroupProjects ==
    /\ InGroup("listProjects")
    /\ \E fail \in BOOLEAN :
        LET f    == Top(stack)
            page == IF fail THEN <<>> ELSE FirstPage(GroupData(f.group.ID).projects)
            ev   == [op |-> "ListGroupProjects", fr |-> f.id, id |-> f.group.ID,
                     ok |-> ~fail, list |-> page]
        IN /\ fail => faultsLeft > 0
           /\ faultsLeft' = IF fail THEN faultsLeft - 1 ELSE faultsLeft
           /\ stack' = IF fail THEN OnListProjectsError(stack)
                       ELSE SetTop(stack, [f EXCEPT !.projects = page, !.pi = 1,
                                                    !.pc = NextPc(f.pc)])
           /\ log' = Append(log, ev) \o ReturnEvents(stack, stack')
    /\ UNCHANGED <<groupIDs, projectIDs, ignoreGroupIDs, ignoreProjectIDs,
                   mainPc, mi, proj, sync, fs>>

\* rc.gitClone(project, dest) is entered: subPath is computed, "get repo" logged.
StartSync(caller, project, dest) ==
    /\ sync' = [pid |-> project.ID, path |-> DestPath(dest, project),
                fr |-> caller, pc |-> "clone", steps |-> <<>>, errs |-> <<>>,
                faulted |-> FALSE]
    /\ log' = Append(log, [op |-> "gitClone", fr |-> caller, id |-> project.ID,
                           path |-> DestPath(dest, project)])

\* for _, project := range projects { rc.gitClone(project, group.FullPath) }
GroupProject ==
    /\ InGroup("projects")
    /\ Top(stack).pi <= Len(Top(stack).projects)
    /\ LET f == Top(stack)
       IN /\ StartSync(f.id, ProjectData(f.projects[f.pi]), f.group.FullPath)
          /\ stack' = SetTop(stack, [f EXCEPT !.pi = f.pi + 1])
    /\ UNCHANGED <<groupIDs, projectIDs, ignoreGroupIDs, ignoreProjectIDs,
                   mainPc, mi, proj, fs, faultsLeft>>

\* The range over projects is exhausted.
GroupProjectsDone ==
    /\ InGroup("projects")
    /\ Top(stack).pi > Len(Top(stack).projects)
    /\ stack' = Advance(stack)
    /\ log' = log \o ReturnEvents(stack, stack')
    /\ UNCHANGED <<groupIDs, projectIDs, ignoreGroupIDs, ignoreProjectIDs,
                   mainPc, mi, proj, sync, fs, faultsLeft>>

\* rc.client.Groups.ListSubGroups(group.ID, ...)
ListSubGroups ==
    /\ InGroup("listSubGroups")
    /\ \E fail \in BOOLEAN :
        LET f    == Top(stack)
            page == IF fail THEN <<>> ELSE FirstPage(GroupData(f.group.ID).subgroups)
            ev   == [op |-> "ListSubGroups", fr |-> f.id, id |-> f.group.ID,
                     ok |-> ~fail, list |-> page]
        IN /\ fail => faultsLeft > 0
           /\ faultsLeft' = IF fail THEN faultsLeft - 1 ELSE faultsLeft
           /\ stack' = IF fail THEN OnListSubGroupsError(stack)
                       ELSE SetTop(stack, [f EXCEPT !.groups = page, !.gi = 1,
                                                    !.pc = NextPc(f.pc)])
           /\ log' = Append(log, ev) \o ReturnEvents(stack, stack')
    /\ UNCHANGED <<groupIDs, projectIDs, ignoreGroupIDs, ignoreProjectIDs,
                   mainPc, mi, proj, sync, fs>>

\* for _, group := range groups { rc.Group(group.ID) }
GroupSubGroup ==
    /\ InGroup("subgroups")
    /\ Top(stack).gi <= Len(Top(stack).groups)
    /\ Len(stack) < MaxDepth
    /\ LET f == Top(stack)
       IN CallGroup(SetTop(stack, [f EXCEPT !.gi = f.gi + 1]), f.id,
                    SubGroupArg(f, f.groups[f.gi]))
    /\ UNCHANGED <<groupIDs, projectIDs, ignoreGroupIDs, ignoreProjectIDs,
                   mainPc, mi, proj, sync, fs, faultsLeft>>

\* The range over subgroups is exhausted.
GroupSubGroupsDone ==
    /\ InGroup("subgroups")
    /\ Top(stack).gi > Len(Top(stack).groups)
    /\ stack' = Advance(stack)
    /\ log' = log \o ReturnEvents(stack, stack')
    /\ UNCHANGED <<groupIDs, projectIDs, ignoreGroupIDs, ignoreProjectIDs,
                   mainPc, mi, proj, sync, fs, faultsLeft>>

----------------------------------------------------------------------------
(* RepoCloner.Project, main.go:92-112 *)

\* slices.Contains(rc.ignoreProjectIDs, projectID)
ProjectIgnored(projectID) == projectID \in ignoreProjectIDs

\* rc.Project(pid) called by main: the exclusion check, and the activation
\* when the project is not excluded.
MainProject ==
    /\ mainPc = "projects" /\ Idle
    /\ mi <= Len(projectIDs)
    /\ LET pid  == projectIDs[mi]
           call == [op |-> "Project", fr |-> 0, id |-> pid]
       IN IF ProjectIgnored(pid)
          THEN /\ log' = log \o <<call, [op |-> "ignore project", fr |-> 0, id |-> pid]>>
               /\ proj' = NoProj
          ELSE /\ log' = Append(log, call)
               /\ proj' = [projectID |-> pid]
    /\ mi' = mi + 1
    /\ UNCHANGED <<groupIDs, projectIDs, ignoreGroupIDs, ignoreProjectIDs,
                   mainPc, stack, sync, fs, faultsLeft>>

\* rc.client.Projects.GetProject(projectID, ...) and, on success, the call
\* rc.gitClone(project, ""), after which Project returns.
GetProject ==
    /\ proj.projectID # 0 /\ sync.pid = 0
    /\ \E fail \in BOOLEAN :
        LET ev == [op |-> "GetProject", fr |-> 0, id |-> proj.projectID, ok |-> ~fail]
        IN /\ fail => faultsLeft > 0
           /\ faultsLeft' = IF fail THEN faultsLeft - 1 ELSE faultsLeft
           /\ IF fail
              THEN /\ log' = Append(log, ev)
                   /\ sync' = sync
              ELSE LET project == ProjectData(proj.projectID)
                   IN /\ sync' = [pid |-> project.ID, path |-> DestPath(<<"">>, project),
                                  fr |-> 0, pc |-> "clone", steps |-> <<>>,
                                  errs |-> <<>>, faulted |-> FALSE]
                      /\ log' = log \o <<ev, [op |-> "gitClone", fr |-> 0,
                                              id |-> project.ID,
                                              path |-> DestPath(<<"">>, project)]>>
    /\ proj' = NoProj
    /\ UNCHANGED <<groupIDs, projectIDs, ignoreGroupIDs, ignoreProjectIDs,
                   mainPc, mi, stack, fs>>

----------------------------------------------------------------------------
(* RepoCloner.gitClone, main.go:114-164 *)

\* Line 132 without the ErrRepositoryAlreadyExists exemption.
CloneFailedStrict(err) == err # "nil"

\* err != nil && !errors.Is(err, git.ErrRepositoryAlreadyExists)
CloneFailed(err) == err # "nil" /\ err # "ErrRepositoryAlreadyExists"

\* err != nil (PlainOpen)
OpenFailed(err) == err # "nil"

\* err != nil (repo.Worktree)
WorktreeFailed(err) == err # "nil"

\* Line 159 without the NoErrAlreadyUpToDate exemption.
PullFailedStrict(err) == err # "nil"

\* err != nil && !errors.Is(err, git.NoErrAlreadyUpToDate)
PullFailed(err) == err # "nil" /\ err # "NoErrAlreadyUpToDate"

\* The statement order of gitClone.
NextStep(step) ==
    CASE step = "clone"    -> "open"
      [] step = "open"     -> "worktree"
      [] step = "worktree" -> "pull"
      [] step = "pull"     -> "return"

\* One step of gitClone has answered err: when failed, the error is logged
\* and gitClone returns; else gitClone goes on, and returns after the last.
\* Its return leaves one "synced" event with all that the sync did.
StepDone(step, err, failed, msg, fault, disk) ==
    LET s == [sync EXCEPT !.steps = Append(@, [step |-> step, err |-> err]),
                          !.errs = IF failed THEN Append(@, msg) ELSE @,
                          !.faulted = @ \/ fault]
    IN IF failed \/ NextStep(step) = "return"
       THEN /\ sync' = NoSync
            /\ log' = Append(log, [op |-> "synced", fr |-> s.fr, id |-> s.pid,
                                   path |-> s.path, steps |-> s.steps,
                                   errs |-> s.errs, faulted |-> s.faulted,
                                   after |-> Local(disk, s.path)])
       ELSE /\ sync' = [s EXCEPT !.pc = NextStep(step)]
            /\ log' = log

\* git.PlainClone(subPath, false, ...)
PlainClone ==
    /\ sync.pid # 0 /\ sync.pc = "clone"
    /\ \E fail \in BOOLEAN :
        LET err == IF fail THEN Failure ELSE PlainCloneResult(fs, sync.path)
        IN /\ fail => faultsLeft > 0
           /\ faultsLeft' = IF fail THEN faultsLeft - 1 ELSE faultsLeft
           /\ fs' = IF fail THEN fs ELSE PlainCloneDisk(fs, sync.path, sync.pid)
           /\ StepDone("clone", err, CloneFailed(err), "clone repo error", fail, fs')
    /\ UNCHANGED <<groupIDs, projectIDs, ignoreGroupIDs, ignoreProjectIDs,
                   mainPc, mi, stack, proj>>

\* git.PlainOpen(subPath)
PlainOpen ==
    /\ sync.pid # 0 /\ sync.pc = "open"
    /\ \E fail \in BOOLEAN :
        LET err == IF fail THEN Failure ELSE PlainOpenResult(fs, sync.path)
        IN /\ fail => faultsLeft > 0
           /\ faultsLeft' = IF fail THEN faultsLeft - 1 ELSE faultsLeft
           /\ StepDone("open", err, OpenFailed(err), "open repo error", fail, fs)
    /\ UNCHANGED <<groupIDs, projectIDs, ignoreGroupIDs, ignoreProjectIDs,
                   mainPc, mi, stack, proj, fs>>

\* repo.Worktree()
Worktree ==
    /\ sync.pid # 0 /\ sync.pc = "worktree"
    /\ \E fail \in BOOLEAN :
        LET err == IF fail THEN Failure ELSE "nil"
        IN /\ fail => faultsLeft > 0
           /\ faultsLeft' = IF fail THEN faultsLeft - 1 ELSE faultsLeft
           /\ StepDone("worktree", err, WorktreeFailed(err), "worktree repo error", fail, fs)
    /\ UNCHANGED <<groupIDs, projectIDs, ignoreGroupIDs, ignoreProjectIDs,
                   mainPc, mi, stack, proj, fs>>

\* work.Pull(&git.PullOptions{RemoteName: "origin", Force: true, ...})
Pull ==
    /\ sync.pid # 0 /\ sync.pc = "pull"
    /\ \E fail \in BOOLEAN :
        LET err == IF fail THEN Failure ELSE PullResult(fs, sync.path)
        IN /\ fail => faultsLeft > 0
           /\ faultsLeft' = IF fail THEN faultsLeft - 1 ELSE faultsLeft
           /\ fs' = IF fail THEN fs ELSE PullDisk(fs, sync.path)
           /\ StepDone("pull", err, PullFailed(err), "pull repo error", fail, fs')
    /\ UNCHANGED <<groupIDs, projectIDs, ignoreGroupIDs, ignoreProjectIDs,
                   mainPc, mi, stack, proj>>

----------------------------------------------------------------------------
(* main, main.go:237-243 *)

\* for _, gid := range groupIDs { rc.Group(gid) }
MainGroup ==
    /\ mainPc = "groups" /\ Idle
    /\ mi <= Len(groupIDs)
    /\ CallGroup(stack, 0, groupIDs[mi])
    /\ mi' = mi + 1
    /\ UNCHANGED <<groupIDs, projectIDs, ignoreGroupIDs, ignoreProjectIDs,
                   mainPc, proj, sync, fs, faultsLeft>>

\* The range over groupIDs is exhausted: on to projectIDs.
MainGroupsDone ==
    /\ mainPc = "groups" /\ Idle
    /\ mi > Len(groupIDs)
    /\ mainPc' = "projects"
    /\ mi' = 1
    /\ UNCHANGED <<groupIDs, projectIDs, ignoreGroupIDs, ignoreProjectIDs,
                   stack, proj, sync, fs, log, faultsLeft>>

\* The range over projectIDs is exhausted: main returns.
MainProjectsDone ==
    /\ mainPc = "projects" /\ Idle
    /\ mi > Len(projectIDs)
    /\ mainPc' = "done"
    /\ UNCHANGED <<groupIDs, projectIDs, ignoreGroupIDs, ignoreProjectIDs,
                   mi, stack, proj, sync, fs, log, faultsLeft>>

Next ==
    \/ MainGroup
    \/ MainGroupsDone
    \/ GetGroup
    \/ ListGroupProjects
    \/ GroupProject
    \/ GroupProjectsDone
    \/ ListSubGroups
    \/ GroupSubGroup
    \/ GroupSubGroupsDone
    \/ MainProject
    \/ GetProject
    \/ PlainClone
    \/ PlainOpen
    \/ Worktree
    \/ Pull
    \/ MainProjectsDone

----------------------------------------------------------------------------
(* Runs *)

\* Repositories the disk holds before the run: project 1's and project 2's
\* earlier mirrors, behind their remotes; every other destination is empty.
StaleDisk ==
    LET p1 == DestPath(GroupData(10).FullPath, ProjectData(1))
        p2 == DestPath(<<"">>, ProjectData(2))
    IN [q \in {p1, p2} |-> IF q = p1 THEN [origin |-> 1, head |-> "old"]
                                     ELSE [origin |-> 2, head |-> "old"]]

EmptyDisk == [q \in {} |-> NoRepo]

\* Command lines over the acyclic hierarchy of groups 10, 11, 12 and 20.
Runs ==
    { [g |-> <<10, 20>>, p |-> <<1, 4>>, ig |-> {},   ip |-> {},  disk |-> StaleDisk],
      [g |-> <<10>>,     p |-> <<5>>,    ig |-> {11}, ip |-> {5}, disk |-> EmptyDisk],
      [g |-> <<11, 10>>, p |-> <<2, 2>>, ig |-> {},   ip |-> {},  disk |-> StaleDisk],
      [g |-> <<10, 10>>, p |-> <<>>,     ig |-> {},   ip |-> {},  disk |-> EmptyDisk],
      [g |-> <<10>>,     p |-> <<3>>,    ig |-> {10}, ip |-> {},  disk |-> EmptyDisk] }

Start(run, faults) ==
    /\ groupIDs = run.g
    /\ projectIDs = run.p
    /\ ignoreGroupIDs = run.ig
    /\ ignoreProjectIDs = run.ip
    /\ fs = run.disk
    /\ faultsLeft = faults
    /\ mainPc = "groups"
    /\ mi = 1
    /\ stack = <<>>
    /\ proj = NoProj
    /\ sync = NoSync
    /\ log = <<>>

Init == \E run \in Runs : Start(run, MaxFailures)

Spec == Init /\ [][Next]_vars

\* The command line --group-ids 30 on an empty disk, with a reliable
\* environment: group 30 owns one project more than a page holds.
BigRun == [g |-> <<30>>, p |-> <<>>, ig |-> {}, ip |-> {}, disk |-> EmptyDisk]

InitPaged ==
    \/ \E run \in Runs : Start(run, MaxFailures)
    \/ Start(BigRun, 0)

SpecPaged == InitPaged /\ [][Next]_vars

----------------------------------------------------------------------------
(* Reading the log *)

Events(op) == {i \in 1..Len(log) : log[i].op = op}

Range(s) == {s[i] : i \in 1..Len(s)}

Done == mainPc = "done"

\* The IDs of the events of kind op in frame f, in order.
IdsIn(op, f) ==
    LET pick(e) == e.op = op /\ e.fr = f
        evs == SelectSeq(log, pick)
    IN [k \in 1..Len(evs) |-> evs[k].id]

\* An external call of event e failed.
Failed(e) ==
    \/ e.op \in {"GetGroup", "ListGroupProjects", "ListSubGroups", "GetProject"} /\ ~e.ok
    \/ e.op = "synced" /\ e.errs # <<>>

\* Groups reachable from group g through the subgroup relation in at most n
\* steps, g included.
RECURSIVE Reach(_, _)
Reach(gs, n) ==
    IF n = 0 THEN gs
    ELSE Reach(gs \cup UNION {Range(GroupData(h).subgroups) : h \in gs}, n - 1)

SubtreeGroups(g) == Reach({g}, Cardinality(AllGroupIDs))

\* No group of g's subtree is its own descendant.
Acyclic(g) ==
    \A h \in SubtreeGroups(g) :
        h \notin Reach(Range(GroupData(h).subgroups), Cardinality(AllGroupIDs))

\* Every project owned by g or by a transitive subgroup of g, with the
\* destination destDir / <owning group's full path> / <project path>.
SubtreeSyncs(g) ==
    UNION { { <<pr, DestPath(GroupData(h).FullPath, ProjectData(pr))>> :
                pr \in Range(GroupData(h).projects) } : h \in SubtreeGroups(g) }

----------------------------------------------------------------------------
(* Claims *)

\* C1: a call Group(G) of a group that is not excluded, in an acyclic
\* hierarchy with no excluded descendant and with no external call failing
\* during the call, has synced, when it returns, exactly the projects that G
\* and its transitive subgroups own, each at
\* destDir / <owning group's full path> / <project path segment>.
C1_GroupSyncsWholeSubtree ==
    (log # <<>> /\ log[Len(log)].op = "return") =>
        LET j == Len(log)
            i == log[j].fr
            G == log[j].id
            inside == (i + 1)..(j - 1)
        IN ( /\ G \notin ignoreGroupIDs
             /\ Acyclic(G)
             /\ SubtreeGroups(G) \cap ignoreGroupIDs = {}
             /\ \A k \in inside : ~Failed(log[k]) /\ (log[k].op = "synced" => ~log[k].faulted) )
           => { <<log[k].id, log[k].path>> : k \in {m \in inside : log[m].op = "gitClone"} }
                = SubtreeSyncs(G)

\* C2: no sync is ever started for a project of the excluded-project set and
\* no metadata fetch (GetProject) is issued for it, also when a visited group
\* lists it.
C2_ExcludedProjectNeverSynced ==
    \A i \in 1..Len(log) :
        log[i].op \in {"gitClone", "GetProject"} => log[i].id \notin ignoreProjectIDs

\* C3: for a group X of the excluded-group set, root or subgroup, Group(X)
\* returns at once: no GetGroup, ListGroupProjects or ListSubGroups is ever
\* issued for X, no activation of X ever runs, and nothing (no sync, no
\* recursive call) lies between the call Group(X) and its return.
C3_ExcludedGroupReturnsAtOnce ==
    \A X \in ignoreGroupIDs :
        /\ \A k \in 1..Len(stack) : stack[k].groupID # X
        /\ \A i \in 1..Len(log) :
            /\ log[i].op \in {"GetGroup", "ListGroupProjects", "ListSubGroups"}
                 => log[i].id # X
            /\ (log[i].op = "Group" /\ log[i].id = X)
                 => /\ Len(log) >= i + 2
                    /\ log[i + 1].op = "ignore group"
                    /\ log[i + 2].op = "return" /\ log[i + 2].fr = i

\* C3's case: an excluded group was reached as a subgroup during recursion,
\* its parent went on, and the run finished having synced something.
C3_Witness ==
    /\ Done
    /\ \E i \in Events("Group") : log[i].id \in ignoreGroupIDs /\ log[i].fr # 0
    /\ Events("synced") # {}

\* C4: failure isolation.  Whatever fails, when the run has finished: every
\* root group and every root project was called in order; every project a
\* successful ListGroupProjects listed was handed to gitClone, in order, by the
\* activation that listed it, which then went on to list its subgroups; every
\* subgroup a successful ListSubGroups listed was called, in order; every
\* called group that is not excluded had its GetGroup issued, and every called
\* root project that is not excluded its GetProject.
C4_FailureIsolation ==
    Done =>
        /\ IdsIn("Group", 0) = groupIDs
        /\ IdsIn("Project", 0) = projectIDs
        /\ \A i \in Events("ListGroupProjects") :
            log[i].ok =>
                /\ IdsIn("gitClone", log[i].fr) = log[i].list
                /\ IdsIn("synced", log[i].fr) = log[i].list
                /\ \E j \in Events("ListSubGroups") : j > i /\ log[j].fr = log[i].fr
        /\ \A i \in Events("ListSubGroups") :
            log[i].ok => IdsIn("Group", log[i].fr) = log[i].list
        /\ \A i \in Events("Group") :
            log[i].id \notin ignoreGroupIDs =>
                \E j \in Events("GetGroup") : log[j].fr = i /\ log[j].id = log[i].id
        /\ \A i \in Events("Project") :
            log[i].id \notin ignoreProjectIDs =>
                (i < Len(log) /\ log[i + 1].op = "GetProject" /\ log[i + 1].id = log[i].id)

\* C4's case: in a finished run, the sync of a group's first listed project
\* failed and a later project of the same group was synced without error, and
\* the GetGroup of a subgroup failed and a sibling listed after it was
\* visited and its project synced without error.
C4_Witness ==
    /\ Done
    /\ \E i, j \in Events("synced") :
        /\ i < j /\ log[i].fr = log[j].fr /\ log[i].fr # 0
        /\ log[i].errs # <<>> /\ log[j].errs = <<>>
    /\ \E x, y \in Events("Group") :
        /\ x < y /\ log[x].fr = log[y].fr /\ log[x].fr # 0
        /\ \E k \in Events("GetGroup") : log[k].fr = x /\ ~log[k].ok
        /\ \E k \in Events("synced") : log[k].fr = y /\ log[k].errs = <<>>

\* The steps of one sync, in the order gitClone runs them.
StepOrder == <<"clone", "open", "worktree", "pull">>

\* A result of a step that is no failure.
Benign(step, err) ==
    \/ err = "nil"
    \/ step = "clone" /\ err = "ErrRepositoryAlreadyExists"
    \/ step = "pull" /\ err = "NoErrAlreadyUpToDate"

ErrorMessage(step) ==
    CASE step = "clone"    -> "clone repo error"
      [] step = "open"     -> "open repo error"
      [] step = "worktree" -> "worktree repo error"
      [] step = "pull"     -> "pull repo error"

\* The steps taken and the errors reported by a sync, finished or not.
StepsInOrder(steps, errs, finished) ==
    /\ Len(steps) <= Len(StepOrder)
    /\ \A k \in 1..Len(steps) : steps[k].step = StepOrder[k]
    /\ \A k \in 1..(Len(steps) - 1) : Benign(steps[k].step, steps[k].err)
    /\ ~finished =>
        /\ errs = <<>>
        /\ \A k \in 1..Len(steps) : Benign(steps[k].step, steps[k].err)
    /\ finished =>
        /\ steps # <<>>
        /\ LET last == steps[Len(steps)]
           IN IF Benign(last.step, last.err)
              THEN errs = <<>> /\ last.step = "pull"
              ELSE errs = <<ErrorMessage(last.step)>>

\* C5: in every sync the steps run in the order clone, open, worktree, pull;
\* "repository already exists" from clone and "already up to date" from pull
\* report no error, and the sync goes on after the former; any other failure
\* is reported and is the last step of that sync.
C5_SyncSteps ==
    /\ \A i \in Events("synced") : StepsInOrder(log[i].steps, log[i].errs, TRUE)
    /\ sync.pid # 0 => StepsInOrder(sync.steps, sync.errs, FALSE)

\* C5's case: one sync found the repository already there and up to date and
\* reported nothing, another was ended by a failed open.
C5_Witness ==
    /\ \E i \in Events("synced") :
        /\ Len(log[i].steps) = 4
        /\ log[i].steps[1].err = "ErrRepositoryAlreadyExists"
        /\ log[i].steps[4].err = "NoErrAlreadyUpToDate"
        /\ log[i].errs = <<>>
    /\ \E i \in Events("synced") :
        /\ Len(log[i].steps) = 2
        /\ log[i].steps[2].err = Failure
        /\ log[i].errs = <<"open repo error">>

\* The sync before sync j at the same destination, 0 when there is none.
PreviousSync(j) ==
    LET before == {i \in Events("synced") : i < j /\ log[i].path = log[j].path}
    IN IF before = {} THEN 0 ELSE CHOOSE i \in before : \A k \in before : k <= i

\* The second of two syncs in succession reports "already up to date" and no
\* error, and leaves the repository as the first left it.
SecondSyncIsNoOp(i, j) ==
    /\ log[j].errs = <<>>
    /\ Len(log[j].steps) = 4
    /\ log[j].steps[4].err = "NoErrAlreadyUpToDate"
    /\ log[j].after = log[i].after

\* Sync j is the second of two syncs in succession of one project at one
\* destination, the first of which completed without error.
SecondOfTwo(j) ==
    /\ PreviousSync(j) # 0
    /\ log[PreviousSync(j)].id = log[j].id
    /\ log[PreviousSync(j)].errs = <<>>

C7_DistinctDestinations ==
    \A i, j \in Events("gitClone") :
        log[i].id # log[j].id => log[i].path # log[j].path

\* The listed projects of the activation with frame f (empty when its
\* ListGroupProjects has not succeeded).
ListedProjects(f) ==
    LET oks == {i \in Events("ListGroupProjects") : log[i].fr = f /\ log[i].ok}
    IN IF oks = {} THEN <<>> ELSE log[CHOOSE i \in oks : TRUE].list

\* Event i is the last of its activation: the activation's return follows.
ReturnsNext(i) ==
    i < Len(log) /\ log[i + 1].op = "return" /\ log[i + 1].fr = log[i].fr

\* C8: a failed ListGroupProjects makes Group return at once: that activation
\* syncs no project, never issues ListSubGroups and calls no subgroup.  A
\* failed ListSubGroups makes it return at once too, with no subgroup called,
\* and comes only after every listed project of the group has been synced.
C8_ListFailures ==
    /\ \A i \in Events("ListGroupProjects") :
        ~log[i].ok =>
            /\ ReturnsNext(i)
            /\ \A k \in 1..Len(log) :
                log[k].fr = log[i].fr =>
                    log[k].op \notin {"gitClone", "synced", "ListSubGroups", "Group"}
    /\ \A i \in Events("ListSubGroups") :
        ~log[i].ok =>
            /\ ReturnsNext(i)
            /\ \A k \in Events("Group") : log[k].fr # log[i].fr
            /\ LET pick(e) == e.op = "synced" /\ e.fr = log[i].fr
                   done == SelectSeq(SubSeq(log, 1, i - 1), pick)
               IN [k \in 1..Len(done) |-> done[k].id] = ListedProjects(log[i].fr)

\* C8's case: in one run ListGroupProjects failed for a group that has
\* subgroups, and ListSubGroups failed for a group that has listed projects
\* and subgroups.
C8_Witness ==
    /\ \E i \in Events("ListGroupProjects") :
        ~log[i].ok /\ GroupData(log[i].id).subgroups # <<>>
    /\ \E i \in Events("ListSubGroups") :
        /\ ~log[i].ok
        /\ ListedProjects(log[i].fr) # <<>>
        /\ GroupData(log[i].id).subgroups # <<>>

\* C9: traversal order.  In every activation, when ListSubGroups is issued
\* every listed project has been synced, and no subgroup is called before
\* it; subgroups are called in listed order, each after the activation of the
\* one before it has returned; and a sync, once started, is the only thing
\* in progress until it ends.
C9_TraversalOrder ==
    /\ \A i \in Events("ListSubGroups") :
        /\ LET pick(e) == e.op = "synced" /\ e.fr = log[i].fr
               done == SelectSeq(SubSeq(log, 1, i - 1), pick)
           IN [k \in 1..Len(done) |-> done[k].id] = ListedProjects(log[i].fr)
        /\ \A k \in Events("Group") : log[k].fr = log[i].fr => k > i
        /\ \A k \in Events("gitClone") : log[k].fr = log[i].fr => k < i
        /\ log[i].ok =>
            LET called == IdsIn("Group", log[i].fr)
            IN /\ Len(called) <= Len(log[i].list)
               /\ called = SubSeq(log[i].list, 1, Len(called))
    /\ \A x, y \in Events("Group") :
        (x < y /\ log[x].fr = log[y].fr /\ log[x].fr # 0) =>
            \E r \in Events("return") : x < r /\ r < y /\ log[r].fr = x
    /\ \A i \in Events("gitClone") :
        IF i = Len(log)
        THEN sync.pid = log[i].id /\ sync.path = log[i].path
        ELSE /\ log[i + 1].op = "synced"
             /\ log[i + 1].id = log[i].id /\ log[i + 1].path = log[i].path
    /\ sync.pid # 0 => log[Len(log)].op = "gitClone"
    /\ ~(stack # <<>> /\ proj.projectID # 0)

\* C9's case: a finished run in which a group synced two projects, then
\* visited two subgroups, the first of which synced a project of its own.
C9_Witness ==
    /\ Done
    /\ \E i \in Events("ListSubGroups") :
        /\ log[i].ok
        /\ Len(ListedProjects(log[i].fr)) = 2
        /\ Len(IdsIn("Group", log[i].fr)) = 2
        /\ \E x \in Events("Group") :
            log[x].fr = log[i].fr /\ IdsIn("synced", x) # <<>>

----------------------------------------------------------------------------
(* Termination *)

\* Command lines for the runs whose end is checked: two over the acyclic
\* hierarchy, and one over groups 40 and 41, each other's subgroup.
LiveRuns ==
    { [g |-> <<10>>, p |-> <<5, 1>>, ig |-> {12}, ip |-> {5}, disk |-> StaleDisk],
      [g |-> <<11, 20>>, p |-> <<>>, ig |-> {},   ip |-> {},  disk |-> EmptyDisk],
      [g |-> <<40>>,     p |-> <<>>, ig |-> {},   ip |-> {},  disk |-> EmptyDisk] }

InitLive == \E run \in LiveRuns : Start(run, MaxFailures)

\* The program is one sequential thread and every external call returns:
\* whenever it has a next step, it takes one.
LiveSpec == InitLive /\ [][Next]_vars /\ WF_vars(Next)

RootsAcyclic == \A k \in 1..Len(groupIDs) : Acyclic(groupIDs[k])

\* No external call has failed so far.
NoFailureYet == \A i \in 1..Len(log) : ~Failed(log[i])

\* C10: with an acyclic subgroup relation under the roots the run finishes,
\* whatever fails; with a group that is its own descendant under a root, a
\* run in which nothing fails and nothing is excluded never finishes (the
\* group is entered again each time it is listed).
C10_Termination ==
    /\ RootsAcyclic => <>Done
    /\ []((~RootsAcyclic /\ NoFailureYet /\ ignoreGroupIDs = {}) => ~Done)

\* C10's case: a run over the acyclic hierarchy that recursed into a
\* subgroup, met two failures and finished.
C10_Witness ==
    /\ Done /\ RootsAcyclic
    /\ faultsLeft = 0
    /\ \E i \in Events("Group") : log[i].fr # 0

====
